---- MODULE Spec2Model ----
(***************************************************************************)
(* LlamaChat: chat repository (services/ChatStorage), model session        *)
(* (context/ModelContext), chat screen (screens/ChatScreen) and home       *)
(* screen (screens/HomeScreen).                                            *)
(*                                                                         *)
(* Text is a sequence of one-character strings, so that String.trim() and  *)
(* the emptiness tests of the code are computed and not assumed.           *)
(***************************************************************************)
EXTENDS Integers, Sequences, FiniteSets, TLC

VARIABLES
  history,        \* the string stored under CHAT_HISTORY_KEY (MMKV), or NoBlob
  nextId,         \* number of ids handed out by generateId
  now,            \* the last instant read from Date.now()
  thrown,         \* exception that escaped the last operation, or "none"
  userSent,       \* history variable: the chats that addMessage has given a user message
  stopStreak,     \* history variable: stopGeneration calls made in a row just now (2 = two or more)
  mounts,         \* ChatScreen instances mounted so far; the last one is the mounted one
  route,          \* ChatScreen route params {chatId, mode}, or NoRoute
  chat,           \* ChatScreen state `chat`
  isGenerating,   \* ChatScreen state `isGenerating`
  userPromptDialogVisible, \* ChatScreen state
  abortControllerRef,      \* ChatScreen ref: index of the current AbortController, or 0
  aborted,        \* set of AbortControllers whose signal is aborted
  gens,           \* the generateResponse calls made so far, one record per call
  selectedModel,  \* ModelProvider state
  modelContext,   \* ModelProvider state: index of the LlamaContext held, or 0
  isModelLoaded,  \* ModelProvider state
  lastModelPath,  \* storage key 'lastModelPath'
  handles,        \* the LlamaContexts created by initLlama, one record per handle
  loads,          \* the loadModel calls made so far, one record per call
  deletes         \* the deleteModel calls made so far, one record per call

repoVars == <<history, nextId, now, thrown, userSent>>
screenVars == <<stopStreak, mounts, route, chat, isGenerating, userPromptDialogVisible, abortControllerRef, aborted, gens>>
modelVars == <<selectedModel, modelContext, isModelLoaded, lastModelPath, handles, loads, deletes>>
vars == <<history, nextId, now, thrown, userSent, stopStreak, mounts, route, chat, isGenerating,
          userPromptDialogVisible, abortControllerRef, aborted, gens,
          selectedModel, modelContext, isModelLoaded, lastModelPath, handles, loads, deletes>>

----------------------------------------------------------------------------
(* Bounds *)

MaxIds == 3        \* generateId calls in one run
MaxChats == 2      \* chats in the document at one time
MaxClock == 1      \* last clock tick
MaxSends == 2      \* generateResponse calls in one run
MaxTokens == 10    \* tokens the engine emits in one completion
MaxMounts == 2     \* ChatScreen instances in one run
MaxLoads == 2      \* loadModel calls in one run
MaxDeletes == 2    \* deleteModel calls in one run

\* ChatScreen: the placeholder is refreshed on every 10th token
StreamEvery == 10

----------------------------------------------------------------------------
(* Text *)

EmptyText == << >>

RECURSIVE TrimStart(_)
TrimStart(s) ==
  IF s = << >> THEN << >>
  ELSE IF Head(s) = " " THEN TrimStart(Tail(s)) ELSE s

RECURSIVE TrimEnd(_)
TrimEnd(s) ==
  IF s = << >> THEN << >>
  ELSE IF s[Len(s)] = " " THEN TrimEnd(SubSeq(s, 1, Len(s) - 1)) ELSE s

Trim(s) == TrimEnd(TrimStart(s))

RECURSIVE Reverse(_)
Reverse(s) == IF s = << >> THEN << >> ELSE Append(Reverse(Tail(s)), Head(s))

\* Array.prototype.filter on message ids
RemoveId(msgs, id) == SelectSeq(msgs, LAMBDA m : m.id # id)

Roles == {"user", "assistant"}
ChatModes == {"conversation", "singleInteractive"}
ModelNames == {"A", "B"}
Contents == {<<"a">>, <<"b">>}
Prompts == {<<"p">>}
Titles == {<<"t">>}
Replies == {<<"r">>}
\* (role, content) pairs passed to addMessage
RoleContents == ({"user"} \X Contents) \cup ({"assistant"} \X Replies)

----------------------------------------------------------------------------
(* services/ChatStorage *)

NullId == "null"
NullChat == [null |-> TRUE]
STREAMING_ID == "streaming_id"

\* base-36 digits only: never equal to STREAMING_ID
generateId(n) == "id" \o ToString(n)

EmptyHistory == [chats |-> << >>, currentChatId |-> NullId]

\* history.chats is a JS object: its keys in insertion order, and the value under each key
ChatIds(h) == {h.chats[i].id : i \in 1..Len(h.chats)}
HasChat(h, chatId) == chatId \in ChatIds(h)
IndexOf(h, chatId) == CHOOSE i \in 1..Len(h.chats) : h.chats[i].id = chatId

\* storage.getString(CHAT_HISTORY_KEY) when the key is not set
NoBlob == [undefined |-> TRUE]
\* a stored string that is not JSON
CorruptBlob == [text |-> "corrupt"]
SyntaxError == [error |-> "SyntaxError"]

JSONstringifyNoCurrent(h) ==
  [json |-> [chats |-> [i \in 1..Len(h.chats) |-> <<h.chats[i].id, h.chats[i]>>],
             currentChatId |-> <<"null">>]]

\* JSON.stringify of a document: the chats object as its members (key, value) in
\* key order, currentChatId as the literal null or a string
JSONstringify(h) ==
  [json |-> [chats |-> [i \in 1..Len(h.chats) |-> <<h.chats[i].id, h.chats[i]>>],
             currentChatId |-> IF h.currentChatId = NullId
                               THEN <<"null">> ELSE <<"string", h.currentChatId>>]]

IsJSON(b) == "json" \in DOMAIN b

\* JSON.parse: the document of a JSON text, SyntaxError for any other string
JSONparse(b) ==
  IF IsJSON(b)
  THEN [chats |-> [i \in 1..Len(b.json.chats) |-> b.json.chats[i][2]],
        currentChatId |-> IF b.json.currentChatId[1] = "null"
                          THEN NullId ELSE b.json.currentChatId[2]]
  ELSE SyntaxError

ParseStoredNoCatch(stored) ==
  IF stored = NoBlob THEN EmptyHistory
  ELSE JSONparse(stored)

\* the body of getChatHistory on the stored value
ParseStored(stored) ==
  IF stored = NoBlob THEN EmptyHistory
  ELSE IF ~IsJSON(stored) THEN EmptyHistory     \* JSON.parse throws, the catch returns
  ELSE JSONparse(stored)

getChatHistory == ParseStored(history)

\* the value storage.set(CHAT_HISTORY_KEY, JSON.stringify(history)) leaves under the key
saveChatHistory(h) == JSONstringify(h)

getChat(h, chatId) == IF HasChat(h, chatId) THEN h.chats[IndexOf(h, chatId)] ELSE NullChat

PutChat(h, c) == [h EXCEPT !.chats[IndexOf(h, c.id)] = c]

NewTitle(t) == <<"New Conversation ", ToString(t)>>

NewChat(chatId, modelName, mode, t) ==
  [id |-> chatId, title |-> NewTitle(t), messages |-> << >>, mode |-> mode,
   userPrompt |-> EmptyText, createdAt |-> t, updatedAt |-> t, modelName |-> modelName]

createChatDocKeepCurrent(h, chatId, modelName, mode, t) ==
  [chats |-> Append(h.chats, NewChat(chatId, modelName, mode, t)),
   currentChatId |-> IF h.currentChatId = NullId THEN chatId ELSE h.currentChatId]

\* history.chats[chatId] = newChat; history.currentChatId = chatId
createChatDoc(h, chatId, modelName, mode, t) ==
  [chats |-> Append(h.chats, NewChat(chatId, modelName, mode, t)), currentChatId |-> chatId]

NewMessage(id, role, content, t) ==
  [id |-> id, role |-> role, content |-> content, timestamp |-> t]

addMessageChatStale(c, message) ==
  LET msgs == <<message>> \o c.messages
  IN [c EXCEPT !.messages = msgs,
               !.title = IF c.userPrompt = EmptyText /\ message.role = "user" /\ Len(msgs) <= 2
                         THEN message.content ELSE @]

addMessagePush(c, message) ==
  LET msgs == Append(c.messages, message)
  IN [c EXCEPT !.messages = msgs,
               !.updatedAt = message.timestamp,
               !.title = IF c.userPrompt = EmptyText /\ message.role = "user" /\ Len(msgs) <= 2
                         THEN message.content ELSE @]

\* the chat after chat.messages.unshift(message), the updatedAt bump and the title rule
addMessageChat(c, message) ==
  LET msgs == <<message>> \o c.messages
  IN [c EXCEPT !.messages = msgs,
               !.updatedAt = message.timestamp,
               !.title = IF c.userPrompt = EmptyText /\ message.role = "user" /\ Len(msgs) <= 2
                         THEN message.content ELSE @]

addMessageDoc(h, chatId, message) == PutChat(h, addMessageChat(getChat(h, chatId), message))

deleteMessageDocTouching(h, chatId, messageId) ==
  LET c == getChat(h, chatId)
  IN PutChat(h, [c EXCEPT !.messages = RemoveId(c.messages, messageId), !.updatedAt = now])

\* chat.messages = chat.messages.filter(message => message.id !== messageId)
deleteMessageDoc(h, chatId, messageId) ==
  LET c == getChat(h, chatId)
  IN PutChat(h, [c EXCEPT !.messages = RemoveId(c.messages, messageId)])

updateUserPromptDoc(h, chatId, userPrompt) ==
  LET c == getChat(h, chatId)
  IN PutChat(h, [c EXCEPT !.userPrompt = userPrompt, !.title = userPrompt])

deleteChatDocNull(h, chatId) ==
  LET rest == SelectSeq(h.chats, LAMBDA c : c.id # chatId)
  IN [chats |-> rest,
      currentChatId |-> IF h.currentChatId = chatId THEN NullId ELSE h.currentChatId]

deleteChatDocDangling(h, chatId) ==
  LET rest == SelectSeq(h.chats, LAMBDA c : c.id # chatId)
  IN [chats |-> rest, currentChatId |-> h.currentChatId]

deleteChatDoc(h, chatId) ==
  LET rest == SelectSeq(h.chats, LAMBDA c : c.id # chatId)
  IN [chats |-> rest,
      currentChatId |-> IF h.currentChatId = chatId
                        THEN (IF Len(rest) > 0 THEN rest[1].id ELSE NullId)
                        ELSE h.currentChatId]

updateChatTitleDoc(h, chatId, title) ==
  LET c == getChat(h, chatId)
  IN PutChat(h, [c EXCEPT !.title = title])

\* history variable: chats that have been given a user message
LogAdd(sent, chatId, role) == IF role = "user" THEN sent \cup {chatId} ELSE sent

StoredChats == {getChatHistory.chats[i] : i \in 1..Len(getChatHistory.chats)}

\* ids a caller may pass: every chat of the document and one that does not exist
SomeChatIds == ChatIds(getChatHistory) \cup {"missing"}

\* message ids a caller may pass: every message of the chat and one that does not exist
SomeMessageIds(chatId) ==
  LET c == getChat(getChatHistory, chatId)
  IN (IF c = NullChat THEN {} ELSE {c.messages[i].id : i \in 1..Len(c.messages)}) \cup {"missing"}

----------------------------------------------------------------------------
(* Repository operations called directly *)

screenIdle == UNCHANGED screenVars
modelIdle == UNCHANGED modelVars

\* Date.now(): any instant not before the last one read
Clock == now..MaxClock

createChat(modelName, mode, t) ==
  /\ nextId < MaxIds
  /\ Len(getChatHistory.chats) < MaxChats
  /\ history' = saveChatHistory(createChatDoc(getChatHistory, generateId(nextId + 1), modelName, mode, t))
  /\ nextId' = nextId + 1
  /\ now' = t
  /\ thrown' = "none"
  /\ UNCHANGED userSent
  /\ screenIdle /\ modelIdle

addMessageSilent(chatId, role, content, t) ==
  /\ nextId < MaxIds
  /\ IF ~HasChat(getChatHistory, chatId)
     THEN /\ thrown' = "none"
          /\ UNCHANGED <<history, nextId, now, userSent>>
     ELSE LET message == NewMessage(generateId(nextId + 1), role, content, t)
          IN /\ history' = saveChatHistory(addMessageDoc(getChatHistory, chatId, message))
             /\ nextId' = nextId + 1
             /\ now' = t
             /\ userSent' = LogAdd(userSent, chatId, role)
             /\ thrown' = "none"
  /\ screenIdle /\ modelIdle

addMessage(chatId, role, content, t) ==
  /\ nextId < MaxIds
  /\ IF ~HasChat(getChatHistory, chatId)
     THEN /\ thrown' = "Chat not found"
          /\ UNCHANGED <<history, nextId, now, userSent>>
     ELSE LET message == NewMessage(generateId(nextId + 1), role, content, t)
          IN /\ history' = saveChatHistory(addMessageDoc(getChatHistory, chatId, message))
             /\ nextId' = nextId + 1
             /\ now' = t
             /\ userSent' = LogAdd(userSent, chatId, role)
             /\ thrown' = "none"
  /\ screenIdle /\ modelIdle

deleteMessage(chatId, messageId) ==
  /\ IF ~HasChat(getChatHistory, chatId)
     THEN /\ thrown' = "Chat not found"
          /\ UNCHANGED history
     ELSE /\ history' = saveChatHistory(deleteMessageDoc(getChatHistory, chatId, messageId))
          /\ thrown' = "none"
  /\ UNCHANGED <<nextId, now, userSent>>
  /\ screenIdle /\ modelIdle

updateUserPrompt(chatId, userPrompt) ==
  /\ IF ~HasChat(getChatHistory, chatId)
     THEN /\ thrown' = "TypeError"
          /\ UNCHANGED history
     ELSE /\ history' = saveChatHistory(updateUserPromptDoc(getChatHistory, chatId, userPrompt))
          /\ thrown' = "none"
  /\ UNCHANGED <<nextId, now, userSent>>
  /\ screenIdle /\ modelIdle

deleteChat(chatId) ==
  /\ history' = IF HasChat(getChatHistory, chatId)
                THEN saveChatHistory(deleteChatDoc(getChatHistory, chatId)) ELSE history
  /\ thrown' = "none"
  /\ UNCHANGED <<nextId, now, userSent>>
  /\ screenIdle /\ modelIdle

updateChatTitle(chatId, title) ==
  /\ history' = IF HasChat(getChatHistory, chatId)
                THEN saveChatHistory(updateChatTitleDoc(getChatHistory, chatId, title)) ELSE history
  /\ thrown' = "none"
  /\ UNCHANGED <<nextId, now, userSent>>
  /\ screenIdle /\ modelIdle

setCurrentChatAny(chatId) ==
  /\ history' = saveChatHistory([getChatHistory EXCEPT !.currentChatId = chatId])
  /\ thrown' = "none"
  /\ UNCHANGED <<nextId, now, userSent>>
  /\ screenIdle /\ modelIdle

setCurrentChat(chatId) ==
  /\ history' = IF HasChat(getChatHistory, chatId)
                THEN saveChatHistory([getChatHistory EXCEPT !.currentChatId = chatId]) ELSE history
  /\ thrown' = "none"
  /\ UNCHANGED <<nextId, now, userSent>>
  /\ screenIdle /\ modelIdle

----------------------------------------------------------------------------
(* context/ModelContext: generateResponse and the engine's completion *)

NoModel == [null |-> TRUE]
LlamaModel(name) == [name |-> name, path |-> "file://models/" \o name \o ".gguf"]
ModelName(m) == IF m = NoModel THEN NullId ELSE m.name

\* the tokens the engine may emit
Tokens == {"x"}

NotLoadedNoHandle == modelContext = 0

\* generateResponse throws 'Model not loaded' before any engine call
NotLoaded == modelContext = 0 \/ ~isModelLoaded

----------------------------------------------------------------------------
(* screens/ChatScreen *)

SystemPrompt == <<"s">>
ErrorText == <<"e">>
NoRoute == [null |-> TRUE]

Mounted == route # NoRoute
\* the generateResponse calls that have started and not settled
Running == {g \in 1..Len(gens) : gens[g].status = "running"}
\* the ChatScreen instance that made call g is still the mounted one
OnScreen(g) == Mounted /\ gens[g].screen = mounts

PromptEntry(m) == [role |-> m.role, content |-> m.content]

FormatMessagesReplay(mode, c, userMessage) ==
  <<[role |-> "system", content |-> SystemPrompt]>>
    \o [i \in 1..Len(c.messages) |-> PromptEntry(Reverse(c.messages)[i])]
    \o <<[role |-> "user", content |-> userMessage]>>

\* formattedMessages, built from the `chat` of the render that created handleSend
FormatMessages(mode, c, userMessage) ==
  <<[role |-> "system", content |-> SystemPrompt]>>
    \o (IF mode = "conversation"
        THEN [i \in 1..Len(c.messages) |-> PromptEntry(Reverse(c.messages)[i])]
        ELSE <<[role |-> "user", content |-> c.userPrompt]>>)
    \o <<[role |-> "user", content |-> userMessage]>>

ChatEffectLax(mode, c, visible) == visible

\* the effect on [chat]: the dialog is forced open while a singleInteractive chat has no prompt
ChatEffect(mode, c, visible) ==
  IF c # NullChat /\ mode = "singleInteractive" /\ c.userPrompt = EmptyText THEN TRUE ELSE visible

\* setChat of the onToken callback: insert the placeholder or overwrite messages[0]
StreamInto(c, content, t) ==
  LET streamMessage == NewMessage(STREAMING_ID, "assistant", content, t)
  IN IF c = NullChat THEN NullChat
     ELSE IF c.messages = << >> \/ c.messages[1].role = "user"
          THEN [c EXCEPT !.messages = <<streamMessage>> \o @]
          ELSE [c EXCEPT !.messages[1] = streamMessage]

\* setChat after the reply is stored: the stored message, then the rest without the placeholder
SettleInto(c, message) ==
  IF c = NullChat THEN NullChat
  ELSE [c EXCEPT !.messages = <<message>> \o RemoveId(@, STREAMING_ID)]

\* one generateResponse call: its arguments, the locals of the handleSend that made it,
\* the engine's progress, and (history) the stored chat as it was before this send
NewGen(chatId, mode, formatted, userMessage, status, before) ==
  [screen |-> mounts, chatId |-> chatId, mode |-> mode, handle |-> modelContext,
   messages |-> formatted, userMessage |-> userMessage, status |-> status,
   text |-> << >>, stopRequested |-> FALSE,
   streamedContent |-> << >>, streamedCount |-> 0,
   before |-> before]

CatchFinallyRollback(g, t) ==
  /\ IF HasChat(getChatHistory, gens[g].chatId)
     THEN /\ history' = saveChatHistory(PutChat(getChatHistory, gens[g].before))
          /\ UNCHANGED <<nextId, now, thrown>>
     ELSE /\ thrown' = "Chat not found"
          /\ UNCHANGED <<history, nextId, now>>
  /\ UNCHANGED chat

\* the catch and finally blocks of handleSend
CatchFinally(g, t) ==
  /\ IF HasChat(getChatHistory, gens[g].chatId)
     THEN /\ history' = saveChatHistory(addMessageDoc(getChatHistory, gens[g].chatId,
                          NewMessage(generateId(nextId + 1), "assistant", ErrorText, t)))
          /\ nextId' = nextId + 1
          /\ now' = t
          /\ UNCHANGED thrown
     ELSE /\ thrown' = "Chat not found"
          /\ UNCHANGED <<history, nextId, now>>
  /\ UNCHANGED chat

Finally(g) ==
  IF OnScreen(g)
  THEN abortControllerRef' = 0 /\ isGenerating' = FALSE
  ELSE UNCHANGED <<abortControllerRef, isGenerating>>

handleSend(inputText, t) ==
  /\ Mounted
  /\ ~isGenerating                \* the send icon is shown in place of the stop icon
  /\ ~userPromptDialogVisible     \* the dialog is modal
  /\ Len(gens) < MaxSends
  /\ stopStreak' = 0
  /\ IF Trim(inputText) = EmptyText \/ ~isModelLoaded \/ chat = NullChat
     THEN UNCHANGED <<history, nextId, now, thrown, userSent, chat, isGenerating,
                      userPromptDialogVisible, abortControllerRef, gens>>
     ELSE IF ~HasChat(getChatHistory, route.chatId)
     THEN /\ thrown' = "Chat not found"
          /\ UNCHANGED <<history, nextId, now, userSent, chat, isGenerating,
                         userPromptDialogVisible, abortControllerRef, gens>>
     ELSE LET userMessage == Trim(inputText)
              newUserMessage == NewMessage(generateId(nextId + 1), "user", userMessage, t)
              stored == addMessageDoc(getChatHistory, route.chatId, newUserMessage)
              formattedMessages == FormatMessages(route.mode, chat, userMessage)
              before == getChat(getChatHistory, route.chatId)
              g == Len(gens) + 1
          IN /\ userSent' = LogAdd(userSent, route.chatId, "user")
             /\ chat' = [chat EXCEPT !.messages = <<newUserMessage>> \o @]
             /\ userPromptDialogVisible' = ChatEffect(route.mode, chat', userPromptDialogVisible)
             /\ IF NotLoaded
                THEN /\ gens' = Append(gens, NewGen(route.chatId, route.mode, formattedMessages, userMessage, "rejected", before))
                     /\ history' = saveChatHistory(addMessageDoc(stored, route.chatId,
                                     NewMessage(generateId(nextId + 2), "assistant", ErrorText, t)))
                     /\ nextId' = nextId + 2
                     /\ abortControllerRef' = 0
                     /\ isGenerating' = FALSE
                ELSE /\ gens' = Append(gens, NewGen(route.chatId, route.mode, formattedMessages, userMessage, "running", before))
                     /\ history' = saveChatHistory(stored)
                     /\ nextId' = nextId + 1
                     /\ abortControllerRef' = g
                     /\ isGenerating' = TRUE
             /\ now' = t
             /\ UNCHANGED thrown
  /\ UNCHANGED <<mounts, route, aborted>>
  /\ modelIdle

\* one LlamaContext runs one completion at a time: a call made while another is
\* running on the same handle waits for it (or is rejected)
Serving(g) ==
  /\ g \in Running
  /\ \A o \in Running : gens[o].handle = gens[g].handle => g <= o

EngineTokenRelayed(g, token, t) ==
  /\ Serving(g)
  /\ Len(gens[g].text) < MaxTokens
  /\ stopStreak' = 0
  /\ IF FALSE
     THEN \* abortSignal.signal.aborted: stopCompletion, and the token is not relayed
          /\ gens' = [gens EXCEPT ![g].text = Append(@, token), ![g].stopRequested = TRUE]
          /\ UNCHANGED <<chat, userPromptDialogVisible, now>>
     ELSE LET content == Append(gens[g].streamedContent, token)
              count == gens[g].streamedCount + 1
          IN /\ gens' = [gens EXCEPT ![g].text = Append(@, token),
                                     ![g].streamedContent = content,
                                     ![g].streamedCount = count]
             /\ IF count % StreamEvery # 0 \/ ~OnScreen(g)
                THEN UNCHANGED <<chat, userPromptDialogVisible, now>>
                ELSE /\ chat' = StreamInto(chat, content, t)
                     /\ now' = t
                     /\ userPromptDialogVisible' = ChatEffect(route.mode, chat', userPromptDialogVisible)
  /\ UNCHANGED <<history, nextId, thrown, userSent, mounts, route, isGenerating,
                 abortControllerRef, aborted>>
  /\ modelIdle

\* the engine emits one token: the callback given to modelContext.completion
EngineToken(g, token, t) ==
  /\ Serving(g)
  /\ Len(gens[g].text) < MaxTokens
  /\ stopStreak' = 0
  /\ IF g \in aborted
     THEN \* abortSignal.signal.aborted: stopCompletion, and the token is not relayed
          /\ gens' = [gens EXCEPT ![g].text = Append(@, token), ![g].stopRequested = TRUE]
          /\ UNCHANGED <<chat, userPromptDialogVisible, now>>
     ELSE LET content == Append(gens[g].streamedContent, token)
              count == gens[g].streamedCount + 1
          IN /\ gens' = [gens EXCEPT ![g].text = Append(@, token),
                                     ![g].streamedContent = content,
                                     ![g].streamedCount = count]
             /\ IF count % StreamEvery # 0 \/ ~OnScreen(g)
                THEN UNCHANGED <<chat, userPromptDialogVisible, now>>
                ELSE /\ chat' = StreamInto(chat, content, t)
                     /\ now' = t
                     /\ userPromptDialogVisible' = ChatEffect(route.mode, chat', userPromptDialogVisible)
  /\ UNCHANGED <<history, nextId, thrown, userSent, mounts, route, isGenerating,
                 abortControllerRef, aborted>>
  /\ modelIdle

EngineResolveShown(g, t) ==
  /\ Serving(g)
  /\ stopStreak' = 0
  /\ gens' = [gens EXCEPT ![g].status = "resolved"]
  /\ LET shown == SubSeq(gens[g].streamedContent, 1,
                         (gens[g].streamedCount \div StreamEvery) * StreamEvery)
         assistantMessage == NewMessage(generateId(nextId + 1), "assistant", Trim(shown), t)
     IN /\ history' = saveChatHistory(addMessageDoc(getChatHistory, gens[g].chatId, assistantMessage))
        /\ nextId' = nextId + 1
        /\ now' = t
        /\ chat' = IF OnScreen(g) THEN SettleInto(chat, assistantMessage) ELSE chat
        /\ UNCHANGED thrown
  /\ userPromptDialogVisible' = ChatEffect(route.mode, chat', userPromptDialogVisible)
  /\ Finally(g)
  /\ UNCHANGED <<userSent, mounts, route, aborted>>
  /\ modelIdle

\* modelContext.completion resolves: generateResponse returns result.text and handleSend goes on
EngineResolve(g, t) ==
  /\ Serving(g)
  /\ stopStreak' = 0
  /\ gens' = [gens EXCEPT ![g].status = "resolved"]
  /\ IF HasChat(getChatHistory, gens[g].chatId)
     THEN LET assistantMessage ==
                NewMessage(generateId(nextId + 1), "assistant", Trim(gens[g].text), t)
          IN /\ history' = saveChatHistory(addMessageDoc(getChatHistory, gens[g].chatId, assistantMessage))
             /\ nextId' = nextId + 1
             /\ now' = t
             /\ chat' = IF OnScreen(g) THEN SettleInto(chat, assistantMessage) ELSE chat
             /\ UNCHANGED thrown
     ELSE CatchFinally(g, t)
  /\ userPromptDialogVisible' = ChatEffect(route.mode, chat', userPromptDialogVisible)
  /\ Finally(g)
  /\ UNCHANGED <<userSent, mounts, route, aborted>>
  /\ modelIdle

\* modelContext.completion rejects: generateResponse rethrows and handleSend catches
EngineReject(g, t) ==
  /\ g \in Running
  /\ stopStreak' = 0
  /\ gens' = [gens EXCEPT ![g].status = "rejected"]
  /\ CatchFinally(g, t)
  /\ Finally(g)
  /\ UNCHANGED <<userSent, mounts, route, userPromptDialogVisible, aborted>>
  /\ modelIdle

stopGenerationSaving ==
  /\ Mounted
  /\ stopStreak' = IF stopStreak < 2 THEN stopStreak + 1 ELSE 2
  /\ history' = IF HasChat(getChatHistory, route.chatId)
                THEN saveChatHistory(addMessageDoc(getChatHistory, route.chatId,
                       NewMessage(generateId(nextId + 1), "assistant", EmptyText, now)))
                ELSE history
  /\ nextId' = nextId + 1
  /\ UNCHANGED <<now, thrown, userSent, mounts, route, chat, isGenerating,
                 userPromptDialogVisible, abortControllerRef, aborted, gens>>
  /\ modelIdle

stopGeneration ==
  /\ Mounted
  /\ stopStreak' = IF stopStreak < 2 THEN stopStreak + 1 ELSE 2
  /\ IF abortControllerRef # 0
     THEN /\ aborted' = aborted \cup {abortControllerRef}
          /\ isGenerating' = FALSE
     ELSE UNCHANGED <<aborted, isGenerating>>
  /\ UNCHANGED <<history, nextId, now, thrown, userSent, mounts, route, chat,
                 userPromptDialogVisible, abortControllerRef, gens>>
  /\ modelIdle

\* "Delete" of a message's context menu: setChat without the message, then deleteMessage
handleMessageItemContextMenuPress(messageId) ==
  /\ Mounted
  /\ ~userPromptDialogVisible
  /\ chat # NullChat
  /\ messageId \in {chat.messages[i].id : i \in 1..Len(chat.messages)}
  /\ stopStreak' = 0
  /\ chat' = [chat EXCEPT !.messages = RemoveId(@, messageId)]
  /\ userPromptDialogVisible' = ChatEffect(route.mode, chat', userPromptDialogVisible)
  /\ IF HasChat(getChatHistory, route.chatId)
     THEN /\ history' = saveChatHistory(deleteMessageDoc(getChatHistory, route.chatId, messageId))
          /\ UNCHANGED thrown
     ELSE /\ thrown' = "Chat not found"
          /\ UNCHANGED history
  /\ UNCHANGED <<nextId, now, userSent, mounts, route, isGenerating,
                 abortControllerRef, aborted, gens>>
  /\ modelIdle

\* the pencil of the header, shown in singleInteractive mode
OpenPromptDialog ==
  /\ Mounted
  /\ route.mode = "singleInteractive"
  /\ ~userPromptDialogVisible
  /\ userPromptDialogVisible' = TRUE
  /\ stopStreak' = 0
  /\ UNCHANGED <<history, nextId, now, thrown, userSent, mounts, route, chat, isGenerating,
                 abortControllerRef, aborted, gens>>
  /\ modelIdle

\* Save of the dialog, enabled for a non-blank prompt
SavePrompt(prompt) ==
  /\ Mounted
  /\ userPromptDialogVisible
  /\ Trim(prompt) # EmptyText
  /\ stopStreak' = 0
  /\ IF HasChat(getChatHistory, route.chatId)
     THEN /\ history' = saveChatHistory(updateUserPromptDoc(getChatHistory, route.chatId, prompt))
          /\ chat' = getChat(ParseStored(history'), route.chatId)
          /\ userPromptDialogVisible' = FALSE
          /\ UNCHANGED thrown
     ELSE /\ thrown' = "TypeError"
          /\ UNCHANGED <<history, chat, userPromptDialogVisible>>
  /\ UNCHANGED <<nextId, now, userSent, mounts, route, isGenerating,
                 abortControllerRef, aborted, gens>>
  /\ modelIdle

\* the cleanup of the mount effect, and the state of the instance going away
Unmount ==
  /\ aborted' = IF abortControllerRef # 0 THEN aborted \cup {abortControllerRef} ELSE aborted
  /\ route' = NoRoute
  /\ chat' = NullChat
  /\ isGenerating' = FALSE
  /\ abortControllerRef' = 0
  /\ userPromptDialogVisible' = FALSE

\* Cancel of the dialog: close it, or leave the screen when no prompt is set
CancelPromptDialog ==
  /\ Mounted
  /\ userPromptDialogVisible
  /\ stopStreak' = 0
  /\ IF chat # NullChat /\ chat.userPrompt # EmptyText
     THEN /\ userPromptDialogVisible' = FALSE
          /\ UNCHANGED <<route, chat, isGenerating, abortControllerRef, aborted>>
     ELSE Unmount
  /\ UNCHANGED <<history, nextId, now, thrown, userSent, mounts, gens>>
  /\ modelIdle

\* navigation back to the home screen
GoBack ==
  /\ Mounted
  /\ ~userPromptDialogVisible
  /\ stopStreak' = 0
  /\ Unmount
  /\ UNCHANGED <<history, nextId, now, thrown, userSent, mounts, gens>>
  /\ modelIdle

----------------------------------------------------------------------------
(* context/ModelContext: loadModel and the release effect *)

repoIdle == UNCHANGED <<history, nextId, now, thrown, userSent>>

Handles == 1..Len(handles)
\* the engine handles initialised and not released
LiveHandles == {h \in Handles : handles[h].state # "released"}

\* modelContext.release() is called: the native release then runs on its own
ReleaseCalled(hs, h) ==
  [hs EXCEPT ![h].releases = @ + 1,
             ![h].state = IF @ = "live" THEN "releasing" ELSE @]

\* models.find(m => m.path === modelPath): the paths offered are those of availableModels
\* `last` is a history field: the stored last-used path when the call was made
NewLoad(model, ctx, pc) == [model |-> model, ctx |-> ctx, pc |-> pc, last |-> lastModelPath]

\* loadModel up to its first await; `modelContext` is the state of the render that made the call
loadModel(name) ==
  /\ ~Mounted                      \* ModelManagement is reached from the home screen
  /\ Len(loads) < MaxLoads
  /\ ~(isModelLoaded /\ selectedModel = LlamaModel(name))   \* the Load button is disabled
  /\ isModelLoaded' = FALSE
  /\ IF modelContext # 0
     THEN /\ handles' = ReleaseCalled(handles, modelContext)
          /\ loads' = Append(loads, NewLoad(LlamaModel(name), modelContext, "release"))
          /\ UNCHANGED selectedModel
     ELSE /\ selectedModel' = LlamaModel(name)
          /\ loads' = Append(loads, NewLoad(LlamaModel(name), modelContext, "info"))
          /\ UNCHANGED handles
  /\ UNCHANGED <<modelContext, lastModelPath>>
  /\ UNCHANGED deletes
  /\ repoIdle /\ screenIdle

\* the native release of a handle finishes
ReleaseCompletes(h) ==
  /\ h \in Handles
  /\ handles[h].state = "releasing"
  /\ handles' = [handles EXCEPT ![h].state = "released"]
  /\ UNCHANGED <<selectedModel, modelContext, isModelLoaded, lastModelPath, loads>>
  /\ UNCHANGED deletes
  /\ repoIdle /\ screenIdle

LoadReleasedNoAwait(l) ==
  /\ l \in 1..Len(loads)
  /\ loads[l].pc = "release"
  /\ selectedModel' = loads[l].model
  /\ loads' = [loads EXCEPT ![l].pc = "info"]
  /\ UNCHANGED <<handles, modelContext, isModelLoaded, lastModelPath>>
  /\ UNCHANGED deletes
  /\ repoIdle /\ screenIdle

\* `await modelContext.release()` resolves: setSelectedModel, then loadModelInfo is called
LoadReleased(l) ==
  /\ l \in 1..Len(loads)
  /\ loads[l].pc = "release"
  /\ handles[loads[l].ctx].state = "released"
  /\ selectedModel' = loads[l].model
  /\ loads' = [loads EXCEPT ![l].pc = "info"]
  /\ UNCHANGED <<handles, modelContext, isModelLoaded, lastModelPath>>
  /\ UNCHANGED deletes
  /\ repoIdle /\ screenIdle

\* loadLlamaModelInfo resolves: initLlama is called
LoadInfoResolves(l) ==
  /\ l \in 1..Len(loads)
  /\ loads[l].pc = "info"
  /\ loads' = [loads EXCEPT ![l].pc = "init"]
  /\ UNCHANGED <<selectedModel, handles, modelContext, isModelLoaded, lastModelPath>>
  /\ UNCHANGED deletes
  /\ repoIdle /\ screenIdle

\* release, loadLlamaModelInfo or initLlama rejects: the catch block shows the alert
LoadRejects(l) ==
  /\ l \in 1..Len(loads)
  /\ \/ loads[l].pc \in {"info", "init"}
     \/ loads[l].pc = "release" /\ handles[loads[l].ctx].releases > 1
  /\ loads' = [loads EXCEPT ![l].pc = "failed"]
  /\ UNCHANGED <<selectedModel, handles, modelContext, isModelLoaded, lastModelPath>>
  /\ UNCHANGED deletes
  /\ repoIdle /\ screenIdle

\* initLlama resolves with a new handle: setModelContext, lastModelPath, setIsModelLoaded(true);
\* the cleanup of the [modelContext] effect then releases the handle held before
LoadInitResolves(l) ==
  /\ l \in 1..Len(loads)
  /\ loads[l].pc = "init"
  /\ LET created == Append(handles, [path |-> loads[l].model.path, state |-> "live", releases |-> 0])
     IN handles' = IF modelContext # 0 THEN ReleaseCalled(created, modelContext) ELSE created
  /\ modelContext' = Len(handles) + 1
  /\ lastModelPath' = loads[l].model.path
  /\ isModelLoaded' = TRUE
  /\ loads' = [loads EXCEPT ![l].pc = "done"]
  /\ UNCHANGED selectedModel
  /\ UNCHANGED deletes
  /\ repoIdle /\ screenIdle

----------------------------------------------------------------------------
(* context/ModelContext: deleteModel *)

Deletes == 1..Len(deletes)

\* the model files RNFS.unlink has removed
Unlinked == {deletes[d].name : d \in {e \in Deletes : deletes[e].pc = "done"}}

\* the session is loaded on a handle initialised from the file of this model
Backs(name) ==
  /\ isModelLoaded
  /\ modelContext # 0
  /\ handles[modelContext].state = "live"
  /\ handles[modelContext].path = LlamaModel(name).path

\* deleteModel up to `await RNFS.exists`; `sel` and `ctx` are selectedModel and
\* modelContext of the render that made the call, `backed` is a history field
deleteModel(name) ==
  /\ ~Mounted
  /\ Len(deletes) < MaxDeletes
  /\ name \notin Unlinked                \* the model is listed in availableModels
  /\ deletes' = Append(deletes, [name |-> name, sel |-> selectedModel, ctx |-> modelContext,
                                  pc |-> "exists", backed |-> Backs(name)])
  /\ UNCHANGED <<selectedModel, modelContext, isModelLoaded, lastModelPath, handles, loads>>
  /\ repoIdle /\ screenIdle

\* setSelectedModel(null), setIsModelLoaded(false), setModelContext(null) and
\* storage.delete('lastModelPath'), then RNFS.unlink is called; the cleanup of the
\* [modelContext] effect releases the handle the state held
DeleteUnloads(d) ==
  /\ selectedModel' = NoModel
  /\ isModelLoaded' = FALSE
  /\ modelContext' = 0
  /\ lastModelPath' = NullId
  /\ handles' = IF modelContext # 0 THEN ReleaseCalled(handles, modelContext) ELSE handles
  /\ deletes' = [deletes EXCEPT ![d].pc = "unlink"]

\* RNFS.exists resolves
DeleteExists(d) ==
  /\ d \in Deletes
  /\ deletes[d].pc = "exists"
  /\ IF deletes[d].name \in Unlinked
     THEN /\ deletes' = [deletes EXCEPT ![d].pc = "failed"]    \* 'Model file does not exist'
          /\ UNCHANGED <<selectedModel, modelContext, isModelLoaded, lastModelPath, handles>>
     ELSE IF deletes[d].sel # NoModel /\ deletes[d].sel.name = deletes[d].name
     THEN IF deletes[d].ctx # 0
          THEN /\ handles' = ReleaseCalled(handles, deletes[d].ctx)
               /\ deletes' = [deletes EXCEPT ![d].pc = "release"]
               /\ UNCHANGED <<selectedModel, modelContext, isModelLoaded, lastModelPath>>
          ELSE DeleteUnloads(d)
     ELSE /\ deletes' = [deletes EXCEPT ![d].pc = "unlink"]
          /\ UNCHANGED <<selectedModel, modelContext, isModelLoaded, lastModelPath, handles>>
  /\ UNCHANGED loads
  /\ repoIdle /\ screenIdle

\* `await modelContext.release()` resolves
DeleteReleased(d) ==
  /\ d \in Deletes
  /\ deletes[d].pc = "release"
  /\ handles[deletes[d].ctx].state = "released"
  /\ DeleteUnloads(d)
  /\ UNCHANGED loads
  /\ repoIdle /\ screenIdle

\* release or RNFS.unlink rejects: the catch block rethrows to the caller
DeleteRejects(d) ==
  /\ d \in Deletes
  /\ \/ deletes[d].pc = "unlink"
     \/ deletes[d].pc = "release" /\ handles[deletes[d].ctx].releases > 1
  /\ deletes' = [deletes EXCEPT ![d].pc = "failed"]
  /\ UNCHANGED <<selectedModel, modelContext, isModelLoaded, lastModelPath, handles, loads>>
  /\ repoIdle /\ screenIdle

\* RNFS.unlink resolves: the file is gone and the model leaves availableModels
DeleteUnlinked(d) ==
  /\ d \in Deletes
  /\ deletes[d].pc = "unlink"
  /\ deletes' = [deletes EXCEPT ![d].pc = "done"]
  /\ UNCHANGED <<selectedModel, modelContext, isModelLoaded, lastModelPath, handles, loads>>
  /\ repoIdle /\ screenIdle

----------------------------------------------------------------------------
(* context/ModelContext: generateResponse called by any consumer of the context *)

\* the call up to the await of modelContext.completion
generateResponse(messages) ==
  /\ Len(gens) < MaxSends
  /\ IF NotLoaded
     THEN /\ gens' = Append(gens, NewGen(NullId, "conversation", messages, EmptyText, "rejected", NullChat))
          /\ thrown' = "Model not loaded"
     ELSE /\ gens' = Append(gens, NewGen(NullId, "conversation", messages, EmptyText, "running", NullChat))
          /\ thrown' = "none"
  /\ UNCHANGED <<history, nextId, now, userSent, stopStreak, mounts, route, chat, isGenerating,
                 userPromptDialogVisible, abortControllerRef, aborted>>
  /\ modelIdle

\* completion resolves: the call returns result.text
generateResponseReturns(g) ==
  /\ Serving(g)
  /\ gens[g].chatId = NullId
  /\ gens' = [gens EXCEPT ![g].status = "resolved"]
  /\ thrown' = "none"
  /\ UNCHANGED <<history, nextId, now, userSent, stopStreak, mounts, route, chat, isGenerating,
                 userPromptDialogVisible, abortControllerRef, aborted>>
  /\ modelIdle

\* completion rejects: the catch block throws 'Failed to generate response'
generateResponseThrows(g) ==
  /\ g \in Running
  /\ gens[g].chatId = NullId
  /\ gens' = [gens EXCEPT ![g].status = "rejected"]
  /\ thrown' = "Failed to generate response"
  /\ UNCHANGED <<history, nextId, now, userSent, stopStreak, mounts, route, chat, isGenerating,
                 userPromptDialogVisible, abortControllerRef, aborted>>
  /\ modelIdle

----------------------------------------------------------------------------
(* screens/HomeScreen *)

\* navigation.navigate('Chat', ..) and the mount effect of the new ChatScreen
MountChat(h, chatId, mode) ==
  /\ mounts' = mounts + 1
  /\ isGenerating' = FALSE
  /\ abortControllerRef' = 0
  /\ IF HasChat(h, chatId)
     THEN /\ route' = [chatId |-> chatId, mode |-> mode]
          /\ chat' = getChat(h, chatId)
          /\ userPromptDialogVisible' = ChatEffect(mode, chat', FALSE)
     ELSE /\ route' = NoRoute
          /\ chat' = NullChat
          /\ userPromptDialogVisible' = FALSE

handleNewChat(mode, t) ==
  /\ ~Mounted
  /\ mounts < MaxMounts
  /\ Len(getChatHistory.chats) < MaxChats
  /\ stopStreak' = 0
  /\ IF ~isModelLoaded
     THEN UNCHANGED <<history, nextId, now, mounts, route, chat, isGenerating,
                      userPromptDialogVisible, abortControllerRef>>
     ELSE LET modelName == IF selectedModel = NoModel THEN "Unknown Model" ELSE selectedModel.name
              chatId == generateId(nextId + 1)
          IN /\ history' = saveChatHistory(createChatDoc(getChatHistory, chatId, modelName, mode, t))
             /\ nextId' = nextId + 1
             /\ now' = t
             /\ MountChat(ParseStored(history'), chatId, mode)
  /\ UNCHANGED <<thrown, userSent, aborted, gens>>
  /\ modelIdle

handleOpenChat(c) ==
  /\ ~Mounted
  /\ mounts < MaxMounts
  /\ stopStreak' = 0
  /\ IF c.modelName = ModelName(selectedModel)
     THEN /\ history' = saveChatHistory([getChatHistory EXCEPT !.currentChatId = c.id])
          /\ MountChat(ParseStored(history'), c.id, c.mode)
     ELSE UNCHANGED <<history, mounts, route, chat, isGenerating,
                      userPromptDialogVisible, abortControllerRef>>
  /\ UNCHANGED <<nextId, now, thrown, userSent, aborted, gens>>
  /\ modelIdle

\* the Delete button of the home screen's confirmation alert
handleDeleteChat(chatId) ==
  /\ ~Mounted
  /\ deleteChat(chatId)

InitIdleScreen ==
  /\ stopStreak = 0
  /\ mounts = 0
  /\ route = NoRoute
  /\ chat = NullChat
  /\ isGenerating = FALSE
  /\ userPromptDialogVisible = FALSE
  /\ abortControllerRef = 0
  /\ aborted = {}
  /\ gens = << >>

InitUnloaded ==
  /\ selectedModel = NoModel
  /\ modelContext = 0
  /\ isModelLoaded = FALSE
  /\ lastModelPath = NullId
  /\ handles = << >>
  /\ loads = << >>
  /\ deletes = << >>

InitRepo ==
  /\ history = NoBlob
  /\ nextId = 0
  /\ now = 0
  /\ thrown = "none"
  /\ userSent = {}
  /\ InitIdleScreen
  /\ InitUnloaded

\* the repository called on the chats it holds
NextRepo ==
  \/ \E mode \in ChatModes, t \in Clock : createChat("A", mode, t)
  \/ \E c \in ChatIds(getChatHistory), rc \in RoleContents, t \in Clock : addMessage(c, rc[1], rc[2], t)
  \/ \E c \in ChatIds(getChatHistory) : \E i \in SomeMessageIds(c) : deleteMessage(c, i)
  \/ \E c \in ChatIds(getChatHistory), p \in Prompts : updateUserPrompt(c, p)
  \/ \E c \in ChatIds(getChatHistory) : deleteChat(c)
  \/ \E c \in ChatIds(getChatHistory), t \in Titles : updateChatTitle(c, t)
  \/ \E c \in ChatIds(getChatHistory) : setCurrentChat(c)

SpecRepo == InitRepo /\ [][NextRepo]_vars

\* the repository called on the chats it holds with one content for each role, the
\* clock running between the calls
NextDated ==
  \/ \E mode \in ChatModes, t \in Clock : createChat("A", mode, t)
  \/ \E c \in ChatIds(getChatHistory), role \in Roles, t \in Clock : addMessage(c, role, <<"a">>, t)
  \/ \E c \in ChatIds(getChatHistory) : \E i \in SomeMessageIds(c) : deleteMessage(c, i)
  \/ \E c \in ChatIds(getChatHistory), p \in Prompts : updateUserPrompt(c, p)
  \/ \E c \in ChatIds(getChatHistory) : deleteChat(c)
  \/ \E c \in ChatIds(getChatHistory), t \in Titles : updateChatTitle(c, t)
  \/ \E c \in ChatIds(getChatHistory) : setCurrentChat(c)

SpecDated == InitRepo /\ [][NextDated]_vars

\* what the key may hold when the application starts: nothing, a string that is
\* not JSON, or the document an earlier run saved
StoredSamples == {NoBlob, CorruptBlob, saveChatHistory(EmptyHistory)}

InitStore ==
  /\ history \in StoredSamples
  /\ nextId = 0
  /\ now = 0
  /\ thrown = "none"
  /\ userSent = {}
  /\ InitIdleScreen
  /\ InitUnloaded

\* the repository called on any id, stored or not, over any stored value
NextStore ==
  \/ createChat("A", "conversation", now)
  \/ \E c \in SomeChatIds, role \in Roles : addMessage(c, role, <<"a">>, now)
  \/ \E c \in SomeChatIds : \E i \in SomeMessageIds(c) : deleteMessage(c, i)
  \/ \E c \in ChatIds(getChatHistory), p \in Prompts : updateUserPrompt(c, p)
  \/ \E c \in SomeChatIds : deleteChat(c)
  \/ \E c \in SomeChatIds, t \in Titles : updateChatTitle(c, t)
  \/ \E c \in SomeChatIds : setCurrentChat(c)

SpecStore == InitStore /\ [][NextStore]_vars

\* the messages on screen, each with its context menu
ViewMessageIds ==
  IF chat = NullChat THEN {} ELSE {chat.messages[i].id : i \in 1..Len(chat.messages)}

UserInputs == {<<"a", " ">>, <<" ">>}

\* model A loaded by an earlier loadModel
InitLoaded ==
  /\ selectedModel = LlamaModel("A")
  /\ modelContext = 1
  /\ isModelLoaded = TRUE
  /\ lastModelPath = LlamaModel("A").path
  /\ handles = <<[path |-> LlamaModel("A").path, state |-> "live", releases |-> 0]>>
  /\ loads = <<[NewLoad(LlamaModel("A"), 0, "done") EXCEPT !.last = NullId]>>
  /\ deletes = << >>

\* the state handleNewChat(mode) leaves: a new chat stored and its ChatScreen mounted
InitScreen ==
  /\ \E mode \in ChatModes :
       /\ history = saveChatHistory(createChatDoc(EmptyHistory, generateId(1), "A", mode, 0))
       /\ route = [chatId |-> generateId(1), mode |-> mode]
       /\ chat = getChat(getChatHistory, generateId(1))
       /\ userPromptDialogVisible = ChatEffect(mode, chat, FALSE)
  /\ nextId = 1
  /\ now = 0
  /\ thrown = "none"
  /\ userSent = {}
  /\ stopStreak = 0
  /\ mounts = 1
  /\ isGenerating = FALSE
  /\ abortControllerRef = 0
  /\ aborted = {}
  /\ gens = << >>
  /\ InitLoaded

\* the screen while the engine streams tokens
NextScreen ==
  \/ \E i \in UserInputs : handleSend(i, now)
  \/ \E g \in Running, k \in Tokens : EngineToken(g, k, now)
  \/ \E g \in Running : EngineResolve(g, now)
  \/ \E g \in Running : EngineReject(g, now)
  \/ stopGeneration
  \/ OpenPromptDialog
  \/ \E p \in Prompts : SavePrompt(p)
  \/ CancelPromptDialog

\* the screen with its message context menu, and an engine that settles every
\* completion before its first token
NextTurns ==
  \/ \E i \in UserInputs : handleSend(i, now)
  \/ \E g \in Running : EngineResolve(g, now)
  \/ \E g \in Running : EngineReject(g, now)
  \/ stopGeneration
  \/ OpenPromptDialog
  \/ \E p \in Prompts : SavePrompt(p)
  \/ CancelPromptDialog
  \/ \E i \in ViewMessageIds : handleMessageItemContextMenuPress(i)

SpecTurns == InitScreen /\ [][NextTurns]_vars

\* the application starts: nothing stored, no model loaded
InitApp ==
  /\ history = NoBlob
  /\ nextId = 0
  /\ now = 0
  /\ thrown = "none"
  /\ userSent = {}
  /\ InitIdleScreen
  /\ InitUnloaded

\* the provider starts: 'lastModelPath' is what an earlier run left in storage
InitModel ==
  /\ history = NoBlob
  /\ nextId = 0
  /\ now = 0
  /\ thrown = "none"
  /\ userSent = {}
  /\ InitIdleScreen
  /\ selectedModel = NoModel
  /\ modelContext = 0
  /\ isModelLoaded = FALSE
  /\ lastModelPath \in {NullId} \cup {LlamaModel(n).path : n \in ModelNames}
  /\ handles = << >>
  /\ loads = << >>
  /\ deletes = << >>

NextModel ==
  \/ \E name \in ModelNames : loadModel(name)
  \/ \E h \in Handles : ReleaseCompletes(h)
  \/ \E l \in 1..Len(loads) : LoadReleased(l)
  \/ \E l \in 1..Len(loads) : LoadInfoResolves(l)
  \/ \E l \in 1..Len(loads) : LoadRejects(l)
  \/ \E l \in 1..Len(loads) : LoadInitResolves(l)

SpecModel == InitModel /\ [][NextModel]_vars

\* the model session with the model files deleted at any moment
NextFiles ==
  \/ \E name \in ModelNames \ Unlinked : loadModel(name)
  \/ \E h \in Handles : ReleaseCompletes(h)
  \/ \E l \in 1..Len(loads) : LoadReleased(l)
  \/ \E l \in 1..Len(loads) : LoadInfoResolves(l)
  \/ \E l \in 1..Len(loads) : LoadRejects(l)
  \/ \E l \in 1..Len(loads) : LoadInitResolves(l)
  \/ \E name \in ModelNames : deleteModel(name)
  \/ \E d \in Deletes : DeleteExists(d)
  \/ \E d \in Deletes : DeleteReleased(d)
  \/ \E d \in Deletes : DeleteRejects(d)
  \/ \E d \in Deletes : DeleteUnlinked(d)

SpecFiles == InitModel /\ [][NextFiles]_vars

\* the message lists a consumer passes to generateResponse
PromptSamples == {<<[role |-> "user", content |-> <<"a">>]>>}

\* the model session with generateResponse called at any moment
NextSession ==
  \/ NextModel
  \/ \E m \in PromptSamples : generateResponse(m)
  \/ \E g \in Running : generateResponseReturns(g)
  \/ \E g \in Running : generateResponseThrows(g)

SpecSession == InitModel /\ [][NextSession]_vars

\* the application: model loading, the home screen and the chat screen, with an
\* engine that settles every completion before its first token
NextApp ==
  \/ NextModel
  \/ \E mode \in ChatModes : handleNewChat(mode, now)
  \/ \E c \in StoredChats : handleOpenChat(c)
  \/ GoBack
  \/ \E i \in UserInputs : handleSend(i, now)
  \/ \E g \in Running : EngineResolve(g, now)
  \/ \E g \in Running : EngineReject(g, now)
  \/ stopGeneration
  \/ OpenPromptDialog
  \/ \E p \in Prompts : SavePrompt(p)
  \/ CancelPromptDialog

SpecApp == InitApp /\ [][NextApp]_vars

SpecScreen == InitScreen /\ [][NextScreen]_vars

\* the text pieces the engine may emit while one completion is followed
StreamTokens == {"x", " "}

\* the state handleSend("a") leaves on a new chat: the user message stored and shown,
\* the generateResponse call in flight
InitStream ==
  /\ InitLoaded
  /\ mounts = 1
  /\ \E mode \in ChatModes :
       LET created == createChatDoc(EmptyHistory, generateId(1), "A", mode, 0)
           prompted == IF mode = "singleInteractive"
                       THEN updateUserPromptDoc(created, generateId(1), <<"p">>) ELSE created
           before == getChat(prompted, generateId(1))
           newUserMessage == NewMessage(generateId(2), "user", <<"a">>, 0)
       IN /\ history = saveChatHistory(addMessageDoc(prompted, generateId(1), newUserMessage))
          /\ route = [chatId |-> generateId(1), mode |-> mode]
          /\ chat = [before EXCEPT !.messages = <<newUserMessage>>]
          /\ gens = <<NewGen(generateId(1), mode, FormatMessages(mode, before, <<"a">>),
                             <<"a">>, "running", before)>>
  /\ nextId = 2
  /\ now = 0
  /\ thrown = "none"
  /\ userSent = {generateId(1)}
  /\ stopStreak = 0
  /\ isGenerating = TRUE
  /\ userPromptDialogVisible = FALSE
  /\ abortControllerRef = 1
  /\ aborted = {}

\* one generation from its start to its end
NextStream ==
  \/ \E g \in Running, k \in StreamTokens : EngineToken(g, k, now)
  \/ \E g \in Running : EngineResolve(g, now)
  \/ \E g \in Running : EngineReject(g, now)
  \/ stopGeneration

SpecStream == InitStream /\ [][NextStream]_vars

\* a generation in flight, with the user free to stop, send again and leave the screen
NextLeave ==
  \/ \E g \in Running, k \in Tokens : EngineToken(g, k, now)
  \/ \E g \in Running : EngineResolve(g, now)
  \/ \E g \in Running : EngineReject(g, now)
  \/ stopGeneration
  \/ \E i \in UserInputs : handleSend(i, now)
  \/ GoBack

SpecLeave == InitStream /\ [][NextLeave]_vars

\* a generation in flight, with the user free to leave the screen and delete chats
NextHome ==
  \/ NextLeave
  \/ \E c \in ChatIds(getChatHistory) : handleDeleteChat(c)

SpecHome == InitStream /\ [][NextHome]_vars

----------------------------------------------------------------------------
(* Properties of the repository *)

\* generateId hands out ids in call order: the call that produced an id
IdIndex(id) == CHOOSE n \in 1..nextId : generateId(n) = id

\* C1: the messages of every stored chat are listed newest-first by insertion
\* order: a message added by a later addMessage call precedes every message
\* added by an earlier call, whatever their timestamps.
C1_NewestFirst ==
  \A c \in StoredChats :
    \A j, k \in 1..Len(c.messages) :
      j < k => IdIndex(c.messages[j].id) > IdIndex(c.messages[k].id)

\* two messages added at the same instant, the later call first
C1_Witness ==
  \E c \in StoredChats :
    /\ Len(c.messages) >= 2
    /\ c.messages[1].timestamp = c.messages[2].timestamp
    /\ IdIndex(c.messages[1].id) > IdIndex(c.messages[2].id)

\* the step is a successful addMessage(c.id, 'user', ..) on the stored chat c
UserMessageAdded(c) ==
  /\ HasChat(ParseStored(history'), c.id)
  /\ Len(getChat(ParseStored(history'), c.id).messages) = Len(c.messages) + 1
  /\ getChat(ParseStored(history'), c.id).messages[1].role = "user"

\* C2: in a chat with empty userPrompt the first user message given to
\* addMessage becomes the title, and every later user message leaves the title
\* unchanged, whatever happened in between.
C2_TitleFromFirstUserMessage ==
  [][\A c \in StoredChats :
       (c.userPrompt = EmptyText /\ UserMessageAdded(c)) =>
         IF c.id \in userSent
         THEN getChat(ParseStored(history'), c.id).title = c.title
         ELSE getChat(ParseStored(history'), c.id).title = getChat(ParseStored(history'), c.id).messages[1].content]_vars

\* C14: a step that deletes the chat currentChatId refers to leaves currentChatId
\* on a chat that is still stored, or null when none is left.
C14_DeleteCurrentMovesOn ==
  [][\A c \in ChatIds(getChatHistory) :
       (getChatHistory.currentChatId = c /\ c \notin ChatIds(ParseStored(history'))) =>
         IF ChatIds(ParseStored(history')) = {}
         THEN ParseStored(history').currentChatId = NullId
         ELSE ParseStored(history').currentChatId \in ChatIds(ParseStored(history'))]_vars

\* the second chat created was deleted and the first one is the current chat
C14_Witness ==
  /\ nextId >= 2
  /\ Len(getChatHistory.chats) = 1
  /\ getChatHistory.chats[1].id = generateId(1)
  /\ getChatHistory.chats[1].messages = << >>
  /\ getChatHistory.currentChatId = generateId(1)

\* C15: currentChatId is null or the id of a stored chat, after any sequence of
\* repository operations from the empty store.
C15_CurrentChatExists ==
  \/ getChatHistory.currentChatId = NullId
  \/ getChatHistory.currentChatId \in ChatIds(getChatHistory)

\* every chat created has been deleted
C15_Witness ==
  /\ nextId >= 1
  /\ history # NoBlob
  /\ getChatHistory.chats = << >>
  /\ getChatHistory.currentChatId = NullId

\* C17: addMessage on a chat id that is not stored fails with the not-found
\* error and leaves the stored value as it was.
C17_AddToMissingChatFails ==
  [][\A c \in SomeChatIds, role \in Roles :
       (~HasChat(getChatHistory, c) /\ addMessage(c, role, <<"a">>, now)) =>
         (thrown' = "Chat not found" /\ history' = history)]_vars

\* the not-found error raised with a chat stored under another id
C17_Witness ==
  /\ thrown = "Chat not found"
  /\ Len(getChatHistory.chats) >= 1
  /\ \A c \in StoredChats : c.messages = << >>

\* C18: deleteMessage on a chat id that is not stored throws nothing and leaves
\* the stored value as it was.
C18_DeleteFromMissingChatSilent ==
  [][\A c \in SomeChatIds : \A i \in SomeMessageIds(c) :
       (~HasChat(getChatHistory, c) /\ deleteMessage(c, i)) =>
         (thrown' = "none" /\ history' = history)]_vars

\* C19: getChatHistory returns the empty history when nothing is stored under
\* the key or when what is stored does not parse, and it always returns a document.
C19_MissingOrCorruptReadsEmpty ==
  /\ (history = NoBlob \/ JSONparse(history) = SyntaxError) => getChatHistory = EmptyHistory
  /\ DOMAIN getChatHistory = {"chats", "currentChatId"}

\* an operation read the value that does not parse and found no chat in it
C19_Witness ==
  /\ history = CorruptBlob
  /\ thrown = "Chat not found"

C21_TitleIsPrompt ==
  \A c \in StoredChats :
    (c.mode = "singleInteractive" /\ c.userPrompt # EmptyText) => c.title = c.userPrompt

\* C36: createChat adds exactly one chat, under an id no stored chat has, with no
\* messages, an empty userPrompt, the mode and modelName given and createdAt equal to
\* updatedAt; it makes that chat the current one and leaves every other chat as it was.
C36_CreateChatFrame ==
  [][\A mode \in ChatModes, t \in Clock :
       (nextId' = nextId + 1 /\ createChat("A", mode, t)) =>
         LET old == getChatHistory
             new == ParseStored(history')
             created == new.chats[Len(new.chats)]
         IN /\ Len(new.chats) = Len(old.chats) + 1
            /\ created.id \notin ChatIds(old)
            /\ created.messages = << >>
            /\ created.userPrompt = EmptyText
            /\ created.mode = mode
            /\ created.modelName = "A"
            /\ created.createdAt = t
            /\ created.updatedAt = t
            /\ new.currentChatId = created.id
            /\ \A i \in 1..Len(old.chats) : new.chats[i] = old.chats[i]]_vars

\* a chat created after a chat that holds a message and was the current one
C36_Witness ==
  /\ Len(getChatHistory.chats) = 2
  /\ getChatHistory.chats[1].messages # << >>
  /\ getChatHistory.chats[2].messages = << >>
  /\ getChatHistory.chats[2].userPrompt = EmptyText
  /\ getChatHistory.chats[2].createdAt = now
  /\ getChatHistory.currentChatId = getChatHistory.chats[2].id

\* C37: a step that creates nothing and removes messages from a chat that stays
\* stored (deleteMessage) removes the message with one id and keeps the other messages
\* in their order; the chat's other fields, the other chats and currentChatId stay as
\* they were.
C37_DeleteMessageFrame ==
  [][(nextId' = nextId /\ history' # history) =>
       \A old \in {getChatHistory}, new \in {ParseStored(history')} :
          \A k \in 1..Len(old.chats) :
            (/\ k <= Len(new.chats)
             /\ new.chats[k].id = old.chats[k].id
             /\ Len(new.chats[k].messages) < Len(old.chats[k].messages)) =>
               /\ new = [old EXCEPT !.chats[k].messages = new.chats[k].messages]
               /\ \E i \in 1..Len(old.chats[k].messages) :
                    new.chats[k].messages =
                      SelectSeq(old.chats[k].messages,
                                LAMBDA m : m.id # old.chats[k].messages[i].id)]_vars

\* the newer of two messages was deleted: the chat keeps the updatedAt that message
\* gave it, later than the timestamp of the message left
C37_Witness ==
  \E c \in StoredChats :
    /\ Len(c.messages) = 1
    /\ c.messages[1].id = generateId(2)
    /\ c.updatedAt > c.messages[1].timestamp
    /\ nextId = 3

\* C38: updateChatTitle, setCurrentChat and deleteChat on an id that is not stored leave
\* the stored value as it was, and every step keeps the id, modelName, mode and
\* createdAt of each chat that stays stored.
C38_AbsentIdsAndFixedFields ==
  [][\A old \in {getChatHistory}, new \in {ParseStored(history')} :
       /\ \A c \in SomeChatIds \ ChatIds(old) :
            /\ deleteChat(c) => history' = history
            /\ setCurrentChat(c) => history' = history
            /\ \A t \in Titles : updateChatTitle(c, t) => history' = history
       /\ \A k \in 1..Len(old.chats) :
            HasChat(new, old.chats[k].id) =>
              /\ Cardinality({j \in 1..Len(new.chats) : new.chats[j].id = old.chats[k].id}) = 1
              /\ getChat(new, old.chats[k].id).modelName = old.chats[k].modelName
              /\ getChat(new, old.chats[k].id).mode = old.chats[k].mode
              /\ getChat(new, old.chats[k].id).createdAt = old.chats[k].createdAt]_vars

\* a chat that was renamed, given a prompt and a message, and is no longer the
\* current one
C38_Witness ==
  /\ Len(getChatHistory.chats) = 2
  /\ getChatHistory.chats[1].id = generateId(1)
  /\ getChatHistory.chats[1].modelName = "A"
  /\ getChatHistory.chats[1].title \in Titles
  /\ getChatHistory.chats[1].userPrompt \in Prompts
  /\ getChatHistory.chats[1].messages # << >>
  /\ getChatHistory.currentChatId = getChatHistory.chats[2].id

\* C39: a step that appends a message to a chat sets the chat's updatedAt to the
\* instant read for the append; updatedAt of a stored chat never decreases and is
\* never before createdAt.
C39_UpdatedAtMonotone ==
  [][history' # history =>
       \A old \in {getChatHistory}, new \in {ParseStored(history')} :
         /\ \A j \in 1..Len(new.chats) : new.chats[j].updatedAt >= new.chats[j].createdAt
         /\ \A k \in 1..Len(old.chats) :
              HasChat(new, old.chats[k].id) =>
                \A after \in {getChat(new, old.chats[k].id)} :
                  /\ after.updatedAt >= old.chats[k].updatedAt
                  /\ Len(after.messages) > Len(old.chats[k].messages) => after.updatedAt = now']_vars

\* a message appended at a tick later than the chat's creation
C39_Witness ==
  \E c \in StoredChats :
    /\ c.messages # << >>
    /\ c.createdAt < c.messages[1].timestamp
    /\ c.updatedAt = now

----------------------------------------------------------------------------
(* Properties of the chat screen *)

Gens == 1..Len(gens)
Settled(g) == gens[g].status # "running"
StoredMessages(chatId) ==
  IF HasChat(getChatHistory, chatId) THEN getChat(getChatHistory, chatId).messages ELSE << >>
Chronological(msgs) == [i \in 1..Len(msgs) |-> PromptEntry(Reverse(msgs)[i])]
SystemEntry == [role |-> "system", content |-> SystemPrompt]
UserEntry(text) == [role |-> "user", content |-> text]

\* C3: at most one generateResponse call has started and not yet settled.
C3_AtMostOneInFlight == Cardinality(Running) <= 1

\* C4: the termination of a generation that stopGeneration cancelled adds
\* nothing to the stored message list of its chat.
C4_CancelPersistsNothing ==
  [][\A g \in Running :
       (g \in aborted /\ gens'[g].status # "running") =>
         (/\ HasChat(ParseStored(history'), gens[g].chatId)
          /\ getChat(ParseStored(history'), gens[g].chatId).messages = StoredMessages(gens[g].chatId))]_vars

\* C5: a singleInteractive send passes the engine exactly three entries: the
\* system prompt, the chat's userPrompt as instruction, the new user message.
C5_SingleInteractivePrompt ==
  \A g \in Gens :
    gens[g].mode = "singleInteractive" =>
      gens[g].messages =
        <<SystemEntry, UserEntry(gens[g].before.userPrompt), UserEntry(gens[g].userMessage)>>

\* a singleInteractive send made with two or more turns already stored
C5_Witness ==
  \E g \in Gens :
    /\ gens[g].mode = "singleInteractive"
    /\ Len(gens[g].before.messages) >= 2
    /\ gens[g].before.userPrompt # EmptyText

\* C6: a conversation send passes the engine the system prompt, then every
\* stored message of the chat oldest first, then the new user message, and
\* nothing else.
C6_ConversationPrompt ==
  \A g \in Gens :
    gens[g].mode = "conversation" =>
      gens[g].messages =
        <<SystemEntry>> \o Chronological(gens[g].before.messages)
                        \o <<UserEntry(gens[g].userMessage)>>

\* C8: stopGeneration, called twice in a row or with no generation in flight,
\* throws nothing and leaves the stored document as it was.
C8_StopLeavesStore ==
  [][stopStreak' >= 1 => (history' = history /\ thrown' = thrown)]_vars

\* stopGeneration called twice in a row with no generation in flight, after a turn
C8_Witness ==
  /\ stopStreak = 2
  /\ Running = {}
  /\ Len(gens) >= 1

Placeholders(msgs) == {i \in 1..Len(msgs) : msgs[i].id = STREAMING_ID}

\* C10: the view-state holds at most one message with id "streaming_id" and
\* the stored document holds none.
C10_OnePlaceholder ==
  /\ chat # NullChat => Cardinality(Placeholders(chat.messages)) <= 1
  /\ \A c \in StoredChats : Placeholders(c.messages) = {}

\* C11: when a generation that was never cancelled completes, the assistant
\* message it stores holds the trimmed concatenation of every token the engine
\* emitted, all of which reached onToken, whatever the placeholder showed.
C11_NoTokenDropped ==
  [][\A g \in Running :
       (gens'[g].status = "resolved" /\ g \notin aborted) =>
         LET msgs == getChat(ParseStored(history'), gens[g].chatId).messages
         IN /\ Len(msgs) = Len(StoredMessages(gens[g].chatId)) + 1
            /\ msgs[1].role = "assistant"
            /\ msgs[1].content = Trim(gens[g].text)
            /\ gens[g].streamedContent = gens[g].text]_vars

\* a completed generation whose tokens never reached a refresh of the placeholder
\* and whose text starts with white space
C11_Witness ==
  \E g \in Gens :
    /\ gens[g].status = "resolved"
    /\ g \notin aborted
    /\ gens[g].streamedCount % StreamEvery # 0
    /\ Len(gens[g].text) >= 2
    /\ Head(gens[g].text) = " "
    /\ \E i \in 1..Len(StoredMessages(gens[g].chatId)) :
         StoredMessages(gens[g].chatId)[i].content = Trim(gens[g].text)

\* C30: once the signal of a call is raised, every token callback of that call
\* requests the engine to stop and returns without calling onToken, the call is
\* not failed by it, and when the completion returns the call resolves: the text
\* is stored as the reply, no error message is stored and nothing is thrown.
C30_CancelStopsAndResolves ==
  [][\A g \in Running :
       /\ (g \in aborted /\ gens'[g].text # gens[g].text) =>
            /\ gens'[g].stopRequested
            /\ gens'[g].status = "running"
            /\ gens'[g].streamedCount = gens[g].streamedCount
            /\ gens'[g].streamedContent = gens[g].streamedContent
            /\ chat' = chat
            /\ history' = history
       /\ (gens[g].stopRequested /\ gens'[g].status = "resolved") =>
            LET msgs == getChat(ParseStored(history'), gens[g].chatId).messages
            IN /\ Len(msgs) = Len(StoredMessages(gens[g].chatId)) + 1
               /\ msgs[1].content = Trim(gens[g].text)
               /\ msgs[1].content # ErrorText
               /\ thrown' = thrown]_vars

\* a cancelled call has returned: the engine emitted tokens after the signal,
\* none of which reached onToken
C30_Witness ==
  \E g \in Gens :
    /\ g \in aborted
    /\ gens[g].stopRequested
    /\ gens[g].status = "resolved"
    /\ gens[g].streamedCount >= 1
    /\ Len(gens[g].text) >= gens[g].streamedCount + 2

\* C12: when the engine fails, one assistant error message is stored for the
\* turn and the view-state then lists exactly the stored messages.
C12_ErrorStoredAndReloaded ==
  [][\A g \in Running :
       gens'[g].status = "rejected" =>
         LET msgs == getChat(ParseStored(history'), gens[g].chatId).messages
         IN /\ HasChat(ParseStored(history'), gens[g].chatId)
            /\ Len(msgs) = Len(StoredMessages(gens[g].chatId)) + 1
            /\ msgs[1].role = "assistant"
            /\ msgs[1].content = ErrorText
            /\ OnScreen(g) => (chat' # NullChat /\ chat'.messages = msgs)]_vars

\* the stored messages before a step are the last stored messages after it
KeepsStored(chatId) ==
  LET old == StoredMessages(chatId)
      new == getChat(ParseStored(history'), chatId).messages
  IN /\ HasChat(ParseStored(history'), chatId)
     /\ Len(new) >= Len(old)
     /\ SubSeq(new, Len(new) - Len(old) + 1, Len(new)) = old

\* C13: when handleSend reaches the engine the user message is already stored,
\* on top of what was stored before; and the end of a generation, completed,
\* cancelled or failed, removes no stored message.
C13_UserMessageStoredFirst ==
  [][/\ (Len(gens') > Len(gens) /\ gens'[Len(gens')].status = "running") =>
          LET g == gens'[Len(gens')]
              msgs == getChat(ParseStored(history'), g.chatId).messages
          IN /\ HasChat(ParseStored(history'), g.chatId)
             /\ Len(msgs) >= 1
             /\ msgs[1].role = "user"
             /\ msgs[1].content = g.userMessage
             /\ Tail(msgs) = g.before.messages
     /\ \A g \in Running : gens'[g].status # "running" => KeepsStored(gens[g].chatId)]_vars

\* a generation that was cancelled and then failed, its user message still stored
C13_Witness ==
  \E g \in Gens :
    /\ gens[g].status = "rejected"
    /\ g \in aborted
    /\ \E i \in 1..Len(StoredMessages(gens[g].chatId)) :
         /\ StoredMessages(gens[g].chatId)[i].role = "user"
         /\ StoredMessages(gens[g].chatId)[i].content = gens[g].userMessage

\* C26: while a singleInteractive chat has an empty userPrompt, no message is
\* added to it and no generateResponse call is made for it.
C26_PromptBlocksSending ==
  [][\A c \in StoredChats :
       (c.mode = "singleInteractive" /\ c.userPrompt = EmptyText) =>
         /\ \A g \in 1..Len(gens') : g > Len(gens) => gens'[g].chatId # c.id
         /\ HasChat(ParseStored(history'), c.id) =>
              Len(getChat(ParseStored(history'), c.id).messages) <= Len(c.messages)]_vars

\* the prompt was saved in the dialog the screen opened on, and a message was sent
C26_Witness ==
  /\ Mounted
  /\ route.mode = "singleInteractive"
  /\ getChat(getChatHistory, route.chatId).userPrompt # EmptyText
  /\ ~userPromptDialogVisible
  /\ \E g \in Gens : gens[g].chatId = route.chatId

\* navigation.setOptions({title: chat.title}) of the effect on [chat]
NavigationTitle == chat.title

\* C27: while a chat is shown, the navigation title is the title stored for it.
C27_NavigationTitleIsStored ==
  (Mounted /\ chat # NullChat /\ HasChat(getChatHistory, route.chatId)) =>
    NavigationTitle = getChat(getChatHistory, route.chatId).title

\* C28: on the mounted screen isGenerating is true exactly while one of its
\* generateResponse calls is in flight.
C28_GeneratingWhileInFlight ==
  Mounted => (isGenerating <=> \E g \in Running : OnScreen(g))

\* C29: every call in flight on the mounted screen can be cancelled: the abort
\* handle of the screen is the controller of that call, unless its signal has
\* been raised already.
C29_InFlightIsCancelable ==
  Mounted =>
    \A g \in Running : OnScreen(g) => (abortControllerRef = g \/ g \in aborted)

\* C31: a token callback that updates the view-state keeps every message whose
\* id is not the placeholder id.
C31_StreamKeepsMessages ==
  [][(/\ \E g \in Running : gens'[g].streamedCount # gens[g].streamedCount
      /\ chat # NullChat
      /\ chat' # NullChat) =>
         \A i \in 1..Len(chat.messages) :
           chat.messages[i].id # STREAMING_ID =>
             \E j \in 1..Len(chat'.messages) : chat'.messages[j] = chat.messages[i]]_vars

MessageIds(msgs) == [i \in 1..Len(msgs) |-> msgs[i].id]

\* the last call of the mounted screen completed without cancellation or failure
\* and no call is in flight
IdleAfterCompletion ==
  /\ Mounted
  /\ chat # NullChat
  /\ ~isGenerating
  /\ Running = {}
  /\ gens # << >>
  /\ OnScreen(Len(gens))
  /\ gens[Len(gens)].status = "resolved"
  /\ Len(gens) \notin aborted

\* C32: when the screen is idle after a generation that completed, the
\* view-state lists the ids of the stored messages of the chat in the same order
\* and holds no placeholder, and no stored message has the placeholder id.
C32_ViewEqualsStoreWhenIdle ==
  IdleAfterCompletion =>
    /\ MessageIds(chat.messages) = MessageIds(StoredMessages(route.chatId))
    /\ Placeholders(chat.messages) = {}
    /\ Placeholders(StoredMessages(route.chatId)) = {}

\* C33: once generation has been attempted handleSend ends without an exception: a
\* step that settles a generateResponse call throws nothing out of handleSend
C33_SendNeverThrows ==
  [][(\E g \in Running : gens'[g].status # "running") =>
       (thrown = "none" => thrown' = "none")]_vars

\* C25: when the screen is torn down, the abort signal of every generation of
\* that screen still in flight is raised, and from then on no token of such a
\* generation is handed to onToken or changes the view-state: the next token
\* callback requests the engine to stop.
C25_TeardownStopsGeneration ==
  [][/\ (Mounted /\ ~Mounted') =>
          \A g \in Running : gens[g].screen = mounts => g \in aborted'
     /\ \A g \in Running :
          (~OnScreen(g) /\ gens'[g].text # gens[g].text) =>
            /\ gens'[g].stopRequested
            /\ gens'[g].streamedCount = gens[g].streamedCount
            /\ chat' = chat]_vars

----------------------------------------------------------------------------
(* Properties of the model session *)

\* C7: the number of engine handles initialised and not released never exceeds 1.
C7_OneLiveHandle == Cardinality(LiveHandles) <= 1

\* C9: no generateResponse call is made for a chat whose modelName differs from
\* the name of the model its engine handle was loaded from.
C9_GenerationOnChatModel ==
  \A g \in Gens :
    gens[g].handle # 0 =>
      handles[gens[g].handle].path = LlamaModel(gens[g].before.modelName).path

\* C22: a loadModel call that found a handle has seen the release of that handle
\* complete before it calls initLlama.
C22_ReleaseBeforeInit ==
  \A l \in 1..Len(loads) :
    (loads[l].ctx # 0 /\ loads[l].pc \in {"init", "done"}) =>
      handles[loads[l].ctx].state = "released"

\* a second model was loaded over the first one
C22_Witness ==
  \E l \in 1..Len(loads) :
    /\ loads[l].ctx # 0
    /\ loads[l].pc = "done"
    /\ modelContext # loads[l].ctx
    /\ isModelLoaded

\* C23: when loadModelInfo or initLlama throws inside loadModel, the session is
\* left unloaded: isModelLoaded is false, no engine handle is live, the stored
\* last-used path is what it was when the call was made, and nothing is thrown
\* to the caller.
C23_FailedLoadLeavesUnloaded ==
  [][\A l \in 1..Len(loads) :
       (loads[l].pc \in {"info", "init"} /\ loads'[l].pc = "failed") =>
         /\ ~isModelLoaded'
         /\ LiveHandles' = {}
         /\ lastModelPath' = loads[l].last
         /\ thrown' = "none"]_vars

\* C24: when deleteModel is called for the model whose file backs the loaded
\* session, then at the moment it calls RNFS.unlink no engine handle on that file
\* is left unreleased and the session is unloaded: selectedModel null,
\* isModelLoaded false, no handle held, last-used path cleared.
C24_UnloadBeforeUnlink ==
  [][\A d \in Deletes :
       (deletes[d].backed /\ deletes[d].pc # "unlink" /\ deletes'[d].pc = "unlink") =>
         /\ selectedModel' = NoModel
         /\ ~isModelLoaded'
         /\ modelContext' = 0
         /\ lastModelPath' = NullId
         /\ \A h \in Handles :
              handles'[h].path = LlamaModel(deletes[d].name).path =>
                handles'[h].state = "released"]_vars

\* C34: release() is called at most once on every engine handle
C34_ReleasedAtMostOnce == \A h \in Handles : handles[h].releases <= 1

\* C35: while isModelLoaded is true the held handle is live and was initialised from
\* the file of selectedModel
C35_LoadedHandleIsSelected ==
  isModelLoaded =>
    /\ modelContext # 0
    /\ handles[modelContext].state = "live"
    /\ selectedModel # NoModel
    /\ handles[modelContext].path = selectedModel.path

\* C16: a generateResponse call made while there is no handle or isModelLoaded
\* is false fails with 'Model not loaded' and never reaches the engine: the call
\* is settled at once and nothing runs or changes for it afterwards.
C16_NotLoadedFailsFirst ==
  [][/\ (Len(gens') > Len(gens) /\ (modelContext = 0 \/ ~isModelLoaded)) =>
          /\ gens'[Len(gens')].status = "rejected"
          /\ gens'[Len(gens')].text = << >>
          /\ thrown' = "Model not loaded"
     /\ \A g \in Gens : gens[g].status # "running" => gens'[g] = gens[g]]_vars

\* a call refused while a handle is held but isModelLoaded is false
C16_Witness ==
  /\ Len(gens) >= 1
  /\ gens[Len(gens)].status = "rejected"
  /\ gens[Len(gens)].handle # 0
  /\ thrown = "Model not loaded"

====
